---- MODULE Spec2Model ----
(***************************************************************************)
(* State-machine model of fbsmslib.FBSMSLib (src/fbsmslib.py): the session *)
(* manager (get_current_sid / _get_sid), the admission gate                *)
(* (enforce_rate_limit) and the SMS send handshake (send_sms,              *)
(* send_sms_multiple).                                                     *)
(*                                                                         *)
(* One client object, one thread of control.  Every blocking call of the   *)
(* code (requests.get, requests.post, time.sleep) is a step of its own: a  *)
(* request is first put in flight (net), and the answer of the device is   *)
(* drawn nondeterministically when the call returns.  Time is counted in   *)
(* seconds; it passes between two public operations and during the sleeps. *)
(* The message text of a send is the same in every request and is left     *)
(* out.                                                                    *)
(***************************************************************************)
EXTENDS Naturals, Sequences, FiniteSets

VARIABLES
  sid,                \* self.__sid
  sid_timeout,        \* self.__sid_timeout
  bucket,             \* self._bucket: time stamps of the "sms_send" items
  now,                \* time.time()
  op,                 \* the public operation being executed ("none": idle)
  pc,                 \* position inside the operation
  phase,              \* the request send_sms is about to build or waits for
  state,              \* local `state` of _get_sid (a LoginState)
  challenge_response, \* local `challenge_response` of _get_sid
  receiver,           \* parameter `receiver` of send_sms
  uid,                \* local `uid` of send_sms
  receivers,          \* parameter `receiver` of send_sms_multiple
  idx,                \* loop index `id` of send_sms_multiple (1-based)
  net,                \* the request in flight, NoReq when none
  result,             \* outcome of the running or last public operation
  calls,              \* number of public operations called so far
  log,                \* history: events of the running or last public operation
  mark,               \* history: Len(log) when get_current_sid was last entered
  call_time,          \* history: time when get_current_sid was last entered
  auth_time,          \* history: time of the last successful authentication
  last_ok,            \* history: time of the last successful get_current_sid
  admitted            \* history: times of all admitted send attempts

session == <<sid, sid_timeout, auth_time, last_ok>>
authLocals == <<state, challenge_response>>
sendLocals == <<phase, receiver, uid, receivers, idx>>
vars == <<session, bucket, admitted, now, op, pc, sendLocals, authLocals, net,
          result, calls, log, mark, call_time>>

(***************************************************************************)
(* Bounds of the model.                                                    *)
(***************************************************************************)
MaxCalls == 2
MaxBlockTime == 3
MaxReceivers == 2
\* The rate given to __init__: Capacity items per RateInterval seconds
\* (10 per hour when __init__ is given no rate).
Capacity == 2
RateInterval == 1200
MaxMessages == 2
\* The number of requests of one operation that take long to be answered.
MaxLate == 1

(***************************************************************************)
(* Program constants.                                                      *)
(***************************************************************************)
SidTimeout == 19 * 60
PauseSeconds == 5
ZeroSid == "0000000000000000"

(***************************************************************************)
(* Value domains.                                                          *)
(***************************************************************************)
None == "None"
NoReq == "none"
Absent == "absent"
Sids == {"sid_a", "sid_b"}
Uids == {"uid_1", "uid_2"}
Receivers == {"r1", "r2"}
Details == {"detail_1"}
password == "pw"
BlockTimes == {0, MaxBlockTime}
\* The time between two public operations: the session is still valid and
\* the rate window still open, or both are over.
Delays == {SidTimeout, RateInterval + 1}

\* The device never issues the session id it issued last.
IssuedSids(last) == IF last = None THEN {"sid_a"} ELSE Sids \ {last}

\* The challenge string, split at "$".
Pbkdf2Challenge == <<"2", "10", "aa", "20", "bb">>
Md5Challenge == <<"1234567z">>
ShortChallenge == <<"2", "10">>
Challenges == {Pbkdf2Challenge, Md5Challenge, ShortChallenge}

\* What the device may answer to the requests of the second factor and to the
\* final confirm: it accepts, or it rejects (a wrong one-time code).
FactorOk == "ok"
FactorAnswers == {FactorOk, "rejected"}

\* The public operations that list messages.
ListOps == {"listMessages", "listIncoming"}

\* A message of the list of data.lua, with the field get_sms_incoming reads.
Message(i, st) == [id |-> i, status_name |-> st]
Messages ==
  {Message(1, "received"), Message(2, "sent"), Message(3, "received"),
   Message(4, Absent)}

\* The sequences over set S of length at most n.
SeqsUpTo(S, n) == UNION {[1..k -> S] : k \in 0..n}

\* The answer to the list request: data.smsListData.messages is there and
\* holds the list m, or it is not there.
ListData(there, m) == [there |-> there, messages |-> m]

\* What the device may answer to the list request.
ListAnswers ==
  {ListData(TRUE, m) : m \in SeqsUpTo(Messages, MaxMessages)}
  \cup {ListData(FALSE, <<>>)}

AuthKinds == {"challenge", "login"}
DataKinds == {"apply", "confirm", "probe", "code", "final"}
NetKinds == AuthKinds \cup DataKinds

\* The `data` object of an answer of data.lua, with the fields send_sms
\* reads; a field the device left out is Absent.
Data(a, v, r, u, s, t) ==
  [apply |-> a, valerror |-> v, redirect |-> r, new_uid |-> u,
   second_apply |-> s, twofactor |-> t]

\* What the device may answer to the apply request.
Apply1Answers ==
  {Data(Absent, Absent, Absent, Absent, Absent, Absent),
   Data("error", Absent, Absent, Absent, Absent, Absent),
   Data("valerror", Absent, Absent, Absent, Absent, Absent),
   Data("ok", Absent, Absent, Absent, Absent, Absent)}
  \cup {Data("valerror", v, Absent, Absent, Absent, Absent) : v \in Details}
  \cup {Data("ok", Absent, "/sms", u, Absent, Absent) : u \in {"uid_1", Absent}}
  \cup {Data("ok", Absent, Absent, u, Absent, Absent) : u \in Uids}

\* What the device may answer to the confirm request.
Apply2Answers ==
  {Data(Absent, Absent, Absent, Absent, Absent, Absent),
   Data(Absent, Absent, Absent, Absent, "", Absent)}
  \cup {Data(Absent, Absent, Absent, Absent, "twofactor", t) :
          t \in {"googleauth", "button,dtmf", Absent}}

(***************************************************************************)
(* The history of an operation.                                            *)
(***************************************************************************)
CallEvent(o, a) == [kind |-> "call", op |-> o, args |-> a]
Request(k, s, r, u) == [kind |-> k, sid |-> s, rcv |-> r, uid |-> u]
Answer(k, body) == [kind |-> "answer", to |-> k, ok |-> TRUE, body |-> body]
NoAnswer(k) == [kind |-> "answer", to |-> k, ok |-> FALSE, body |-> None]
Step(k, r, d) == [kind |-> k, rcv |-> r, dur |-> d]

Outcome(o, k, v) == [op |-> o, kind |-> k, val |-> v]

\* The events of `l` whose kind is in `kinds`, in order.
OfKinds(l, kinds) == SelectSeq(l, LAMBDA e : e.kind \in kinds)

Kinds(l) == [i \in 1..Len(l) |-> l[i].kind]

(***************************************************************************)
(* Challenge codec.                                                        *)
(***************************************************************************)
\* LoginState with every challenge taken for a PBKDF2 challenge.
LoginState_any_kind(challenge, blocktime) ==
  [challenge |-> challenge, blocktime |-> blocktime, is_pbkdf2 |-> TRUE]

\* LoginState.__init__: is_pbkdf2 = challenge.startswith("2$")
LoginState(challenge, blocktime) ==
  [challenge |-> challenge, blocktime |-> blocktime,
   is_pbkdf2 |-> Len(challenge) >= 2 /\ challenge[1] = "2"]

\* hashlib.pbkdf2_hmac("sha256", key, salt, iterations), left uninterpreted
pbkdf2_hmac(key, salt, iterations) == <<"sha256", key, salt, iterations>>

\* calculate_pbkdf2_response: parts 1..4 of the split challenge (0-based)
calculate_pbkdf2_response(challenge) ==
  LET iter1 == challenge[2]
      salt1 == challenge[3]
      iter2 == challenge[4]
      salt2 == challenge[5]
      hash1 == pbkdf2_hmac(password, salt1, iter1)
      hash2 == pbkdf2_hmac(hash1, salt2, iter2)
  IN  <<challenge[5], hash2>>

(***************************************************************************)
(* Initial state: the fields assigned by __init__ before it calls          *)
(* get_current_sid().                                                      *)
(***************************************************************************)
Init ==
  /\ sid = None
  /\ sid_timeout = None
  /\ bucket = <<>>
  /\ now = 0
  /\ op = "init"
  /\ pc = "get_current_sid"
  /\ phase = None
  /\ state = None
  /\ challenge_response = None
  /\ receiver = None
  /\ uid = None
  /\ receivers = <<>>
  /\ idx = 0
  /\ net = NoReq
  /\ result = Outcome("init", "running", None)
  /\ calls = 0
  /\ log = <<CallEvent("init", None)>>
  /\ mark = 1
  /\ call_time = 0
  /\ auth_time = 0
  /\ last_ok = 0
  /\ admitted = <<>>

\* The locals of the running operation are dropped when it ends.
DropLocals ==
  /\ phase' = None
  /\ state' = None
  /\ challenge_response' = None
  /\ receiver' = None
  /\ uid' = None
  /\ receivers' = <<>>
  /\ idx' = 0
  /\ net' = NoReq

\* The public operation ends: it returns v (k = "ok") or raises k.  An
\* exception leaving __init__ leaves no client object behind.
Return(k, v) ==
  /\ op' = IF op = "init" /\ k # "ok" THEN "dead" ELSE "none"
  /\ pc' = "idle"
  /\ result' = Outcome(op, k, v)
  /\ DropLocals

Raise(k) == Return(k, None)

\* get_current_sid returns s to its caller: __init__ and the public getSid
\* end, send_sms and get_sms go on to post the request they build with s.
SidReturned(s) ==
  IF op \in {"init", "getSid"}
  THEN Return("ok", s)
  ELSE /\ pc' = IF op \in ListOps THEN "get_sms" ELSE "request"
       /\ state' = None
       /\ challenge_response' = None
       /\ net' = NoReq
       /\ UNCHANGED <<op, result, sendLocals>>

(***************************************************************************)
(* Session manager.                                                        *)
(***************************************************************************)
\* get_current_sid with the expiry renewed only by a new authentication.
get_current_sid_fixed_expiry ==
  /\ pc = "get_current_sid"
  /\ mark' = Len(log)
  /\ call_time' = now
  /\ IF sid = None \/ now > sid_timeout
     THEN /\ pc' = "get_login_state"
          /\ UNCHANGED <<sid, sid_timeout, last_ok, op, result, sendLocals,
                         authLocals, net>>
     ELSE /\ sid_timeout' = sid_timeout
          /\ last_ok' = now
          /\ sid' = sid
          /\ SidReturned(sid)
  /\ UNCHANGED <<bucket, admitted, now, log, auth_time, calls>>

\* get_current_sid renewing the expiry of the session it holds before it
\* authenticates.
get_current_sid_renew_first ==
  /\ pc = "get_current_sid"
  /\ mark' = Len(log)
  /\ call_time' = now
  /\ sid_timeout' = IF sid = None THEN sid_timeout ELSE now + SidTimeout
  /\ IF sid = None \/ now > sid_timeout
     THEN /\ pc' = "get_login_state"
          /\ UNCHANGED <<sid, last_ok, op, result, sendLocals, authLocals, net>>
     ELSE /\ last_ok' = now
          /\ sid' = sid
          /\ SidReturned(sid)
  /\ UNCHANGED <<bucket, admitted, now, log, auth_time, calls>>

\* get_current_sid renewing the expiry of a cached sid by 19 seconds.
get_current_sid_renew_seconds ==
  /\ pc = "get_current_sid"
  /\ mark' = Len(log)
  /\ call_time' = now
  /\ IF sid = None \/ now > sid_timeout
     THEN /\ pc' = "get_login_state"
          /\ UNCHANGED <<sid, sid_timeout, last_ok, op, result, sendLocals,
                         authLocals, net>>
     ELSE /\ sid_timeout' = now + 19
          /\ last_ok' = now
          /\ sid' = sid
          /\ SidReturned(sid)
  /\ UNCHANGED <<bucket, admitted, now, log, auth_time, calls>>

\* get_current_sid, lines 43-46: the expiry check and the cached path.
get_current_sid ==
  /\ pc = "get_current_sid"
  /\ mark' = Len(log)
  /\ call_time' = now
  /\ IF sid = None \/ now > sid_timeout
     THEN /\ pc' = "get_login_state"
          /\ UNCHANGED <<sid, sid_timeout, last_ok, op, result, sendLocals,
                         authLocals, net>>
     ELSE /\ sid_timeout' = now + SidTimeout
          /\ last_ok' = now
          /\ sid' = sid
          /\ SidReturned(sid)
  /\ UNCHANGED <<bucket, admitted, now, log, auth_time, calls>>

\* get_login_state, lines 75-76: the GET of the challenge is sent.
get_login_state ==
  /\ pc = "get_login_state"
  /\ net' = "challenge"
  /\ log' = Append(log, Request("challenge", None, None, None))
  /\ pc' = "challenge_wait"
  /\ UNCHANGED <<session, bucket, admitted, now, op, result, calls, sendLocals,
                 authLocals, mark, call_time>>

\* _get_sid, lines 50-53: the GET or the parsing of its answer fails.
ChallengeFetchFailed ==
  /\ pc = "challenge_wait"
  /\ log' = Append(log, NoAnswer("challenge"))
  /\ Raise("ChallengeFetchFailed")
  /\ UNCHANGED <<session, bucket, admitted, now, mark, call_time, calls>>

\* _get_sid, lines 51-60 (with get_login_state, lines 77-80): the answer
\* carries challenge c and block time b.
ChallengeFetched(c, b) ==
  /\ pc = "challenge_wait"
  /\ LET st == LoginState(c, b)
         got == Append(log, Answer("challenge", [challenge |-> c, blocktime |-> b]))
     IN
     IF ~st.is_pbkdf2
     THEN /\ Raise("UnsupportedChallengeKind")
          /\ log' = got
     ELSE IF Len(c) < 5
     THEN /\ Raise("IndexError")
          /\ log' = got
     ELSE /\ state' = st
          /\ challenge_response' = calculate_pbkdf2_response(st.challenge)
          /\ log' = Append(got, Step("pbkdf2", None, 0))
          /\ pc' = IF st.blocktime > 0 THEN "sleep" ELSE "send_response"
          /\ net' = NoReq
          /\ UNCHANGED <<op, result, sendLocals>>
  /\ UNCHANGED <<session, bucket, admitted, now, mark, call_time, calls>>

\* BlockTimeSleep sleeping one second whatever the block time is.
BlockTimeSleep_one_second ==
  /\ pc = "sleep"
  /\ now' = now + 1
  /\ log' = Append(log, Step("sleep", None, 1))
  /\ pc' = "send_response"
  /\ UNCHANGED <<session, bucket, admitted, op, result, calls, sendLocals,
                 authLocals, net, mark, call_time>>

\* _get_sid, lines 62-63: time.sleep(state.blocktime)
BlockTimeSleep ==
  /\ pc = "sleep"
  /\ now' = now + state.blocktime
  /\ log' = Append(log, Step("sleep", None, state.blocktime))
  /\ pc' = "send_response"
  /\ UNCHANGED <<session, bucket, admitted, op, result, calls, sendLocals,
                 authLocals, net, mark, call_time>>

\* send_response, lines 99-102: the POST of the response is sent.
send_response ==
  /\ pc = "send_response"
  /\ net' = "login"
  /\ log' = Append(log, Request("login", None, None, None))
  /\ pc' = "login_wait"
  /\ UNCHANGED <<session, bucket, admitted, now, op, result, calls, sendLocals,
                 authLocals, mark, call_time>>

\* LoginSubmitFailed starting the exchange again instead of raising.
LoginSubmitFailed_retry ==
  /\ pc = "login_wait"
  /\ log' = Append(log, NoAnswer("login"))
  /\ pc' = "get_login_state"
  /\ net' = NoReq
  /\ state' = None
  /\ challenge_response' = None
  /\ UNCHANGED <<session, bucket, admitted, now, op, result, calls, sendLocals,
                 mark, call_time>>

\* _get_sid, lines 65-68: the POST or the parsing of its answer fails.
LoginSubmitFailed ==
  /\ pc = "login_wait"
  /\ log' = Append(log, NoAnswer("login"))
  /\ Raise("LoginSubmitFailed")
  /\ UNCHANGED <<session, bucket, admitted, now, mark, call_time, calls>>

\* SidReceived without the test for the all-zero sid.
SidReceived_unchecked(s) ==
  /\ pc = "login_wait"
  /\ log' = Append(log, Answer("login", s))
  /\ sid' = s
  /\ sid_timeout' = now + SidTimeout
  /\ auth_time' = now
  /\ last_ok' = now
  /\ SidReturned(s)
  /\ UNCHANGED <<bucket, admitted, now, mark, call_time, calls>>

\* _get_sid, lines 66-71, then get_current_sid, lines 44-46: the answer
\* carries the sid s.
SidReceived(s) ==
  /\ pc = "login_wait"
  /\ log' = Append(log, Answer("login", s))
  /\ IF s = ZeroSid
     THEN /\ Raise("InvalidCredentials")
          /\ UNCHANGED session
     ELSE /\ sid' = s
          /\ sid_timeout' = now + SidTimeout
          /\ auth_time' = now
          /\ last_ok' = now
          /\ SidReturned(s)
  /\ UNCHANGED <<bucket, admitted, now, mark, call_time, calls>>

(***************************************************************************)
(* Admission gate.                                                         *)
(***************************************************************************)
\* The items of b that count against the rate at time t (InMemoryBucket).
InWindow(b, t) == SelectSeq(b, LAMBDA x : x + RateInterval >= t)

\* enforce_rate_limit admitting one item more than the rate allows.
enforce_rate_limit_one_more ==
  /\ pc = "enforce_rate_limit"
  /\ IF Len(InWindow(bucket, now)) > Capacity
     THEN /\ bucket' = InWindow(bucket, now)
          /\ Raise("RateLimitExceeded")
          /\ UNCHANGED <<log, admitted>>
     ELSE /\ bucket' = Append(InWindow(bucket, now), now)
          /\ admitted' = Append(admitted, now)
          /\ log' = Append(log, Step("acquire", receiver, 0))
          /\ phase' = "apply"
          /\ pc' = "get_current_sid"
          /\ UNCHANGED <<op, result, receiver, uid, receivers, idx, authLocals, net>>
  /\ UNCHANGED <<session, now, mark, call_time, calls>>

\* enforce_rate_limit, lines 130-137, called at line 140 of send_sms; the
\* items that left the window are leaked from the bucket.
enforce_rate_limit ==
  /\ pc = "enforce_rate_limit"
  /\ IF Len(InWindow(bucket, now)) >= Capacity
     THEN /\ bucket' = InWindow(bucket, now)
          /\ Raise("RateLimitExceeded")
          /\ UNCHANGED <<log, admitted>>
     ELSE /\ bucket' = Append(InWindow(bucket, now), now)
          /\ admitted' = Append(admitted, now)
          /\ log' = Append(log, Step("acquire", receiver, 0))
          /\ phase' = "apply"
          /\ pc' = "get_current_sid"
          /\ UNCHANGED <<op, result, receiver, uid, receivers, idx, authLocals, net>>
  /\ UNCHANGED <<session, now, mark, call_time, calls>>

(***************************************************************************)
(* SMS send protocol.                                                      *)
(***************************************************************************)
\* The req_data of send_sms for phase p, built with the sid s just returned
\* by get_current_sid: lines 145-153 (apply), 167-176 (confirm), 182-187
\* (probe), 190-195 (code), 198-209 (final).
req_data(p, s) ==
  Request(p, s,
          IF p \in {"apply", "confirm", "final"} THEN receiver ELSE None,
          IF p \in {"confirm", "final"} THEN uid ELSE None)

\* safe_post_request with the sid of the apply request in every request of
\* the handshake.
safe_post_request_one_sid ==
  /\ pc = "request"
  /\ log' = Append(log, req_data(phase,
                     IF OfKinds(log, {"apply"}) = <<>> \/ phase = "apply"
                     THEN sid
                     ELSE OfKinds(log, {"apply"})[Len(OfKinds(log, {"apply"}))].sid))
  /\ net' = phase
  /\ pc' = "response"
  /\ UNCHANGED <<session, bucket, admitted, now, op, result, calls, sendLocals,
                 authLocals, mark, call_time>>

\* safe_post_request, lines 123-126, at lines 154, 177, 188, 196, 210: the
\* POST of the request of the current phase is sent.
safe_post_request ==
  /\ pc = "request"
  /\ log' = Append(log, req_data(phase, sid))
  /\ net' = phase
  /\ pc' = "response"
  /\ UNCHANGED <<session, bucket, admitted, now, op, result, calls, sendLocals,
                 authLocals, mark, call_time>>

\* RequestFailed with send_sms_multiple going on to its next receiver.
RequestFailed_skipped ==
  /\ pc = "response"
  /\ log' = Append(log, NoAnswer(phase))
  /\ IF op = "sendSmsMultiple"
     THEN /\ idx' = idx + 1
          /\ pc' = "loop"
          /\ phase' = None
          /\ uid' = None
          /\ receiver' = None
          /\ net' = NoReq
          /\ UNCHANGED <<op, result, receivers, authLocals>>
     ELSE Raise("TransportError")
  /\ UNCHANGED <<session, bucket, admitted, now, mark, call_time, calls>>

\* RequestFailed giving the unit of the failed send back to the bucket.
RequestFailed_refund ==
  /\ pc = "response"
  /\ log' = Append(log, NoAnswer(phase))
  /\ bucket' = SubSeq(bucket, 1, Len(bucket) - 1)
  /\ Raise("TransportError")
  /\ UNCHANGED <<session, admitted, now, mark, call_time, calls>>

\* safe_post_request, lines 127-128: requests raises.
RequestFailed ==
  /\ pc = "response"
  /\ log' = Append(log, NoAnswer(phase))
  /\ Raise("TransportError")
  /\ UNCHANGED <<session, bucket, admitted, now, mark, call_time, calls>>

\* send_sms returns: the public sendSms ends, send_sms_multiple goes on
\* with its loop.
SendDone ==
  IF op = "sendSms"
  THEN Return("ok", None)
  ELSE /\ idx' = idx + 1
       /\ pc' = "loop"
       /\ phase' = None
       /\ uid' = None
       /\ receiver' = None
       /\ net' = NoReq
       /\ UNCHANGED <<op, result, receivers, authLocals>>

\* send_sms goes on to its next request, for phase p.
NextPhase(p) ==
  /\ phase' = p
  /\ pc' = "get_current_sid"
  /\ net' = NoReq
  /\ UNCHANGED <<op, result, receiver, receivers, idx, authLocals>>

\* HasGoogleAuth taking every second-factor method for the supported one.
HasGoogleAuth_any_method(t) == TRUE

\* `"googleauth" in t` of line 180, for the values of the twofactor field
HasGoogleAuth(t) == t = "googleauth"

\* Apply1Response without the early return on a redirect field.
Apply1Response_no_redirect(data) ==
  /\ pc = "response"
  /\ phase = "apply"
  /\ log' = Append(log, Answer("apply", data))
  /\ IF data.apply = Absent THEN Raise("KeyError")
     ELSE IF data.apply # "ok" THEN
       IF data.apply = "valerror"
       THEN IF data.valerror = Absent
            THEN Raise("KeyError")
            ELSE Return("ValidationError", data.valerror)
       ELSE Raise("SendInitiationFailed")
     ELSE IF data.new_uid = Absent THEN Raise("KeyError")
     ELSE /\ uid' = data.new_uid
          /\ NextPhase("confirm")
  /\ UNCHANGED <<session, bucket, admitted, now, mark, call_time, calls>>

\* Apply1Response without the test for "valerror".
Apply1Response_no_valerror(data) ==
  /\ pc = "response"
  /\ phase = "apply"
  /\ log' = Append(log, Answer("apply", data))
  /\ IF data.apply = Absent THEN Raise("KeyError")
     ELSE IF data.apply # "ok" THEN Raise("SendInitiationFailed")
     ELSE IF data.redirect # Absent THEN SendDone
     ELSE IF data.new_uid = Absent THEN Raise("KeyError")
     ELSE /\ uid' = data.new_uid
          /\ NextPhase("confirm")
  /\ UNCHANGED <<session, bucket, admitted, now, mark, call_time, calls>>

\* send_sms, lines 154-165: the answer to the apply request carries data.
Apply1Response(data) ==
  /\ pc = "response"
  /\ phase = "apply"
  /\ log' = Append(log, Answer("apply", data))
  /\ IF data.apply = Absent THEN Raise("KeyError")
     ELSE IF data.apply # "ok" THEN
       IF data.apply = "valerror"
       THEN IF data.valerror = Absent
            THEN Raise("KeyError")
            ELSE Return("ValidationError", data.valerror)
       ELSE Raise("SendInitiationFailed")
     ELSE IF data.redirect # Absent THEN SendDone
     ELSE IF data.new_uid = Absent THEN Raise("KeyError")
     ELSE /\ uid' = data.new_uid
          /\ NextPhase("confirm")
  /\ UNCHANGED <<session, bucket, admitted, now, mark, call_time, calls>>

\* send_sms, lines 177-218: the answer to the confirm request carries data.
Apply2Response(data) ==
  /\ pc = "response"
  /\ phase = "confirm"
  /\ log' = Append(log, Answer("confirm", data))
  /\ IF data.second_apply = Absent THEN Raise("KeyError")
     ELSE IF data.second_apply = "twofactor" THEN
       IF data.twofactor = Absent THEN Raise("KeyError")
       ELSE IF HasGoogleAuth(data.twofactor) THEN /\ NextPhase("probe")
                                                  /\ UNCHANGED uid
       ELSE Raise("UnsupportedSecondFactor")
     ELSE Raise("UnexpectedProtocolState")
  /\ UNCHANGED <<session, bucket, admitted, now, mark, call_time, calls>>

\* TwoFactorResponse going from the probe straight to the final confirm.
TwoFactorResponse_no_code(ans) ==
  /\ pc = "response"
  /\ phase \in {"probe", "code", "final"}
  /\ log' = Append(log, Answer(phase, ans))
  /\ IF phase = "final"
     THEN SendDone
     ELSE /\ NextPhase("final")
          /\ UNCHANGED uid
  /\ UNCHANGED <<session, bucket, admitted, now, mark, call_time, calls>>

\* TwoFactorResponse raising when the device rejects.
TwoFactorResponse_validated(ans) ==
  /\ pc = "response"
  /\ phase \in {"probe", "code", "final"}
  /\ log' = Append(log, Answer(phase, ans))
  /\ IF ans # FactorOk
     THEN Raise("UnexpectedProtocolState")
     ELSE IF phase = "final"
     THEN SendDone
     ELSE /\ NextPhase(IF phase = "probe" THEN "code" ELSE "final")
          /\ UNCHANGED uid
  /\ UNCHANGED <<session, bucket, admitted, now, mark, call_time, calls>>

\* send_sms, lines 188, 196 and 210: the answers to the probe, to the code
\* and to the final confirm, whatever they are, are dropped unread.
TwoFactorResponse(ans) ==
  /\ pc = "response"
  /\ phase \in {"probe", "code", "final"}
  /\ log' = Append(log, Answer(phase, ans))
  /\ IF phase = "final"
     THEN SendDone
     ELSE /\ NextPhase(IF phase = "probe" THEN "code" ELSE "final")
          /\ UNCHANGED uid
  /\ UNCHANGED <<session, bucket, admitted, now, mark, call_time, calls>>

\* send_sms_multiple pausing before the first receiver too.
send_sms_multiple_pause_first ==
  /\ pc = "loop"
  /\ IF idx > Len(receivers)
     THEN Return("ok", None)
     ELSE /\ pc' = IF idx > 0 THEN "pause" ELSE "enforce_rate_limit"
          /\ receiver' = receivers[idx]
          /\ UNCHANGED <<op, result, phase, uid, receivers, idx, authLocals, net>>
  /\ UNCHANGED <<session, bucket, admitted, now, log, mark, call_time, calls>>

\* send_sms_multiple, lines 223-226: the next round of the loop, up to the
\* pause.
send_sms_multiple ==
  /\ pc = "loop"
  /\ IF idx > Len(receivers)
     THEN Return("ok", None)
     ELSE /\ pc' = IF idx > 1 THEN "pause" ELSE "enforce_rate_limit"
          /\ receiver' = receivers[idx]
          /\ UNCHANGED <<op, result, phase, uid, receivers, idx, authLocals, net>>
  /\ UNCHANGED <<session, bucket, admitted, now, log, mark, call_time, calls>>

\* send_sms_multiple, line 225: time.sleep(5)
Pause ==
  /\ pc = "pause"
  /\ now' = now + PauseSeconds
  /\ log' = Append(log, Step("pause", None, PauseSeconds))
  /\ pc' = "enforce_rate_limit"
  /\ UNCHANGED <<session, bucket, admitted, op, result, calls, sendLocals,
                 authLocals, net, mark, call_time>>

(***************************************************************************)
(* The caller.                                                             *)
(***************************************************************************)
\* The public operation o is called with arguments a on the idle client, d
\* seconds after the last operation ended.
Call(o, a, d) ==
  /\ op = "none"
  /\ calls < MaxCalls
  /\ calls' = calls + 1
  /\ now' = now + d
  /\ op' = o
  /\ log' = <<CallEvent(o, a)>>
  /\ mark' = 1
  /\ result' = Outcome(o, "running", None)
  /\ UNCHANGED <<session, bucket, admitted, authLocals, net, call_time, phase, uid>>

\* getSid()
Call_get_current_sid(d) ==
  /\ Call("getSid", None, d)
  /\ pc' = "get_current_sid"
  /\ UNCHANGED <<receiver, receivers, idx>>

\* sendSms(r, message)
Call_send_sms(r, d) ==
  /\ Call("sendSms", r, d)
  /\ receiver' = r
  /\ pc' = "enforce_rate_limit"
  /\ UNCHANGED <<receivers, idx>>

\* The receiver lists of at most n receivers: r1, r2, r1, ...
Lists(n) ==
  {[i \in 1..k |-> IF i % 2 = 1 THEN "r1" ELSE "r2"] : k \in 0..n}

\* sendSmsMultiple(rs, message)
Call_send_sms_multiple(rs, d) ==
  /\ Call("sendSmsMultiple", rs, d)
  /\ receivers' = rs
  /\ idx' = 1
  /\ pc' = "loop"
  /\ UNCHANGED receiver

Next ==
  \/ \E d \in Delays : Call_get_current_sid(d)
  \/ \E r \in Receivers, d \in Delays : Call_send_sms(r, d)
  \/ \E rs \in Lists(MaxReceivers), d \in Delays : Call_send_sms_multiple(rs, d)
  \/ get_current_sid
  \/ get_login_state
  \/ ChallengeFetchFailed
  \/ \E c \in Challenges, b \in BlockTimes : ChallengeFetched(c, b)
  \/ BlockTimeSleep
  \/ send_response
  \/ LoginSubmitFailed
  \/ \E s \in IssuedSids(sid) \cup {ZeroSid} : SidReceived(s)
  \/ enforce_rate_limit
  \/ safe_post_request
  \/ RequestFailed
  \/ \E data \in Apply1Answers : Apply1Response(data)
  \/ \E data \in Apply2Answers : Apply2Response(data)
  \/ \E ans \in {FactorOk} : TwoFactorResponse(ans)
  \/ send_sms_multiple
  \/ Pause

Spec == Init /\ [][Next]_vars

(***************************************************************************)
(* Message retrieval, and a device that is slow to answer.                 *)
(***************************************************************************)
\* get_sms_incoming returning the whole list.
get_sms_incoming_unfiltered(messages) == messages

\* get_sms_incoming, line 230: [i for i in messages if i["status_name"] ==
\* "received"]
get_sms_incoming(messages) ==
  SelectSeq(messages, LAMBDA i : i.status_name = "received")

\* get_sms, lines 110-118: the POST of the list request, built with the sid
\* get_current_sid just returned, is sent.
get_sms ==
  /\ pc = "get_sms"
  /\ log' = Append(log, Request("list", sid, None, None))
  /\ net' = "list"
  /\ pc' = "get_sms_wait"
  /\ UNCHANGED <<session, bucket, admitted, now, op, result, calls, sendLocals,
                 authLocals, mark, call_time>>

\* get_sms, lines 119-120: requests raises.
get_sms_failed ==
  /\ pc = "get_sms_wait"
  /\ log' = Append(log, NoAnswer("list"))
  /\ Raise("TransportError")
  /\ UNCHANGED <<session, bucket, admitted, now, mark, call_time, calls>>

\* get_sms, line 121, and for listIncoming get_sms_incoming, lines 229-230:
\* the answer carries data.
get_sms_response(data) ==
  /\ pc = "get_sms_wait"
  /\ log' = Append(log, Answer("list", data))
  /\ IF ~data.there THEN Raise("KeyError")
     ELSE IF op = "listMessages" THEN Return("ok", data.messages)
     ELSE IF \E i \in 1..Len(data.messages) : data.messages[i].status_name = Absent
     THEN Raise("KeyError")
     ELSE Return("ok", get_sms_incoming(data.messages))
  /\ UNCHANGED <<session, bucket, admitted, now, mark, call_time, calls>>

\* requests.get / requests.post (no timeout is given) block for longer than
\* the session lasts before the device answers.
Latency ==
  /\ net # NoReq
  /\ Len(OfKinds(log, {"latency"})) < MaxLate
  /\ now' = now + SidTimeout + 1
  /\ log' = Append(log, Step("latency", None, SidTimeout + 1))
  /\ UNCHANGED <<session, bucket, admitted, op, pc, result, calls, sendLocals,
                 authLocals, net, mark, call_time>>

\* listMessages()
Call_get_sms(d) ==
  /\ Call("listMessages", None, d)
  /\ pc' = "get_current_sid"
  /\ UNCHANGED <<receiver, receivers, idx>>

\* listIncoming()
Call_get_sms_incoming(d) ==
  /\ Call("listIncoming", None, d)
  /\ pc' = "get_current_sid"
  /\ UNCHANGED <<receiver, receivers, idx>>

\* The client used for single sends and for message retrieval, with a device
\* that may reject in the second factor and may be slow.  The operations are
\* called just before the session would expire, so that a session is lost
\* only while a request is in flight; the device asks for no block time.
NextDevice ==
  \/ \E r \in Receivers : Call_send_sms(r, SidTimeout)
  \/ Call_get_sms(SidTimeout)
  \/ Call_get_sms_incoming(SidTimeout)
  \/ get_current_sid
  \/ get_login_state
  \/ ChallengeFetchFailed
  \/ \E c \in Challenges : ChallengeFetched(c, 0)
  \/ send_response
  \/ LoginSubmitFailed
  \/ \E s \in IssuedSids(sid) \cup {ZeroSid} : SidReceived(s)
  \/ enforce_rate_limit
  \/ safe_post_request
  \/ RequestFailed
  \/ \E data \in Apply1Answers : Apply1Response(data)
  \/ \E data \in Apply2Answers : Apply2Response(data)
  \/ \E ans \in FactorAnswers : TwoFactorResponse(ans)
  \/ get_sms
  \/ get_sms_failed
  \/ \E data \in ListAnswers : get_sms_response(data)
  \/ Latency

SpecDevice == Init /\ [][NextDevice]_vars

(***************************************************************************)
(* Properties.                                                             *)
(***************************************************************************)
\* The requests of the operation to data.lua and twofactor.lua.
DataLog == OfKinds(log, DataKinds)

\* The events since get_current_sid was last entered.
LastCall == SubSeq(log, mark + 1, Len(log))

\* The operation has ended.
Ended == pc = "idle"

\* Event e is the answer a to request k, received and parsed.
IsAnswer(e, k) == e.kind = "answer" /\ e.to = k /\ e.ok

\* get_current_sid is at its expiry check, a session being cached.
AtCheck == pc = "get_current_sid" /\ sid # None

\* The step returns the cached sid and touches the network not at all.
Cached ==
  /\ sid' = sid
  /\ log' = log
  /\ net' = NoReq
  /\ pc' \in {"idle", "request"}
  /\ op = "getSid" => result' = Outcome("getSid", "ok", sid)

\* The step starts an authentication exchange.
StartsExchange == pc' = "get_login_state" /\ sid' = sid /\ log' = log

\* One get_current_sid call fetches at most one challenge and then submits at
\* most one response; when it returns a sid, it did both or none.
OneExchange ==
  /\ Kinds(OfKinds(LastCall, AuthKinds))
       \in {<<>>, <<"challenge">>, <<"challenge", "login">>}
  /\ (pc = "request" \/ (Ended /\ result.op \in {"init", "getSid"} /\ result.kind = "ok"))
       => Kinds(OfKinds(LastCall, AuthKinds)) \in {<<>>, <<"challenge", "login">>}

\* C1 as stated: after an authentication at time T, a getSid() call made at a
\* time <= T + 19 min returns the cached sid without network exchange, and
\* the first call made after T + 19 min performs a new authentication.
C1_Original ==
  [][AtCheck =>
       /\ now <= auth_time + SidTimeout => Cached
       /\ (call_time <= auth_time + SidTimeout /\ now > auth_time + SidTimeout)
            => StartsExchange]_vars

\* C1 amended: a getSid() call made at most 19 min after the last successful
\* authentication, or at most 19 min after the last successful getSid() call
\* (each such call renews the expiry), returns the cached sid without
\* network exchange; a call made more than 19 min after the last successful
\* getSid() call starts one new authentication exchange, of one challenge
\* fetch and at most one response submission (exactly one if it succeeds).
C1_SlidingRenewal ==
  /\ []OneExchange
  /\ [][AtCheck =>
          /\ now <= auth_time + SidTimeout => Cached
          /\ now <= last_ok + SidTimeout => Cached
          /\ now > last_ok + SidTimeout => StartsExchange]_vars

\* A getSid() call answered from the cache more than 19 min after the
\* authentication.
C1_Witness ==
  /\ Ended
  /\ result = Outcome("getSid", "ok", sid)
  /\ OfKinds(log, NetKinds) = <<>>
  /\ call_time > auth_time + SidTimeout

\* C2: the cached sid is never the all-zero sid; a login answered with the
\* all-zero sid ends the operation with InvalidCredentials, and neither
\* getSid() nor a request ever carries the all-zero sid.
C2_NeverZeroSid ==
  /\ sid # ZeroSid
  /\ \A i \in 1..Len(log) :
       /\ (IsAnswer(log[i], "login") /\ log[i].body = ZeroSid)
            => i = Len(log) /\ Ended /\ result.kind = "InvalidCredentials"
       /\ log[i].kind \in NetKinds => log[i].sid # ZeroSid
  /\ (result.op \in {"init", "getSid"} /\ result.kind = "ok") => result.val # ZeroSid

\* A re-authentication of a client holding a session was answered with the
\* all-zero sid.
C2_Witness ==
  /\ Ended
  /\ result.kind = "InvalidCredentials"
  /\ sid \in Sids
  /\ IsAnswer(log[Len(log)], "login")
  /\ log[Len(log)].body = ZeroSid

\* The number of send attempts admitted in the window that ends at time t.
AdmittedInWindow(t) ==
  Cardinality({i \in 1..Len(admitted) : admitted[i] + RateInterval >= t})

\* C3: once Capacity send attempts were admitted within the window, the next
\* send attempt fails with RateLimitExceeded, makes no network call and
\* leaves the cached sid and its expiry as they were.
C3_DeniedBeforeNetwork ==
  [][(pc = "enforce_rate_limit" /\ AdmittedInWindow(now) >= Capacity) =>
       /\ pc' = "idle"
       /\ result'.kind = "RateLimitExceeded"
       /\ log' = log
       /\ log[Len(log)].kind \in {"call", "pause"}
       /\ net' = NoReq
       /\ sid' = sid
       /\ sid_timeout' = sid_timeout]_vars

\* A sendSms denied as the (Capacity+1)-th attempt of its window.
C3_Witness ==
  /\ Ended
  /\ result = Outcome("sendSms", "RateLimitExceeded", None)
  /\ AdmittedInWindow(now) = Capacity
  /\ Len(log) = 1

\* Every request in the log but a last one in flight is directly followed by
\* its answer.
Alternation ==
  \A i \in 1..Len(log) :
    log[i].kind \in NetKinds =>
      IF i = Len(log) THEN net = log[i].kind
      ELSE log[i + 1].kind = "answer" /\ log[i + 1].to = log[i].kind

\* The operation met an answer that never came or could not be parsed, or a
\* failed authentication.
Failed ==
  \E i \in 1..Len(log) :
    /\ log[i].kind = "answer"
    /\ ~log[i].ok \/ (log[i].to \in AuthKinds /\ i = Len(log))

TwoFactorPath == <<"apply", "confirm", "probe", "code", "final">>

\* The confirm request was answered with second_apply = "twofactor" and the
\* supported method.
TwoFactorAsked ==
  \E i \in 1..Len(log) :
    /\ IsAnswer(log[i], "confirm")
    /\ log[i].body.second_apply = "twofactor"
    /\ log[i].body.twofactor = "googleauth"

\* C4: a sendSms whose confirm request is answered with "twofactor" and the
\* supported method sends apply, confirm, probe, code and final confirm, in
\* this order and each after the answer to the one before; confirm and final
\* confirm carry the new_uid of the apply answer; the operation then succeeds.
C4_TwoFactorFiveRequests ==
  /\ Alternation
  /\ (result.op = "sendSms" /\ TwoFactorAsked) =>
       /\ Len(DataLog) >= 2
       /\ Kinds(DataLog) = SubSeq(TwoFactorPath, 1, Len(DataLog))
       /\ \A i \in 1..Len(log) : \A j \in 1..Len(DataLog) :
            (IsAnswer(log[i], "apply") /\ DataLog[j].kind \in {"confirm", "final"})
              => DataLog[j].uid = log[i].body.new_uid
       /\ Ended => (result.kind = "ok" \/ Failed)
       /\ (Ended /\ result.kind = "ok") => Kinds(DataLog) = TwoFactorPath

\* A sendSms that succeeded through the second factor.
C4_Witness ==
  /\ Ended
  /\ result = Outcome("sendSms", "ok", None)
  /\ Kinds(DataLog) = TwoFactorPath
  /\ DataLog[5].uid \in Uids

\* C5: a sendSms whose apply request is answered with apply = "ok" and a
\* redirect field succeeds after this one request.
C5_RedirectOneRequest ==
  \A i \in 1..Len(log) :
    (/\ result.op = "sendSms"
     /\ IsAnswer(log[i], "apply")
     /\ log[i].body.apply = "ok"
     /\ log[i].body.redirect # Absent)
      => /\ i = Len(log)
         /\ Ended
         /\ result.kind = "ok"
         /\ Kinds(DataLog) = <<"apply">>

\* A sendSms that ended on a redirect although the answer also had a new_uid.
C5_Witness ==
  /\ Ended
  /\ result = Outcome("sendSms", "ok", None)
  /\ IsAnswer(log[Len(log)], "apply")
  /\ log[Len(log)].body.redirect # Absent
  /\ log[Len(log)].body.new_uid \in Uids

\* C6: a sendSms whose confirm request is answered with "twofactor" and
\* another method than the supported one fails with UnsupportedSecondFactor
\* and sends nothing after the confirm request.
C6_UnsupportedSecondFactor ==
  \A i \in 1..Len(log) :
    (/\ IsAnswer(log[i], "confirm")
     /\ log[i].body.second_apply = "twofactor"
     /\ log[i].body.twofactor \notin {Absent, "googleauth"})
      => /\ i = Len(log)
         /\ Ended
         /\ result.kind = "UnsupportedSecondFactor"
         /\ log[i - 1].kind = "confirm"

\* A sendSms that failed on an unsupported second factor.
C6_Witness ==
  /\ Ended
  /\ result = Outcome("sendSms", "UnsupportedSecondFactor", None)
  /\ Kinds(DataLog) = <<"apply", "confirm">>

\* C7 as stated: a sendSms whose confirm request is answered without
\* second_apply, or with another value than "twofactor", fails with
\* UnexpectedProtocolState and sends nothing more.
C7_UnexpectedProtocolState ==
  \A i \in 1..Len(log) :
    (IsAnswer(log[i], "confirm") /\ log[i].body.second_apply # "twofactor")
      => /\ i = Len(log)
         /\ Ended
         /\ result.kind = "UnexpectedProtocolState"

\* C8: a sendSms whose apply request is answered with apply = "valerror" and
\* a validation detail fails with ValidationError carrying that detail; with
\* any other value than "ok" it fails with SendInitiationFailed; either way
\* the apply request is its last request.
C8_ApplyRejected ==
  \A i \in 1..Len(log) :
    (IsAnswer(log[i], "apply") /\ log[i].body.apply \notin {"ok", Absent})
      => /\ i = Len(log)
         /\ Ended
         /\ log[i - 1].kind = "apply"
         /\ log[i].body.apply # "valerror"
              => result.kind = "SendInitiationFailed"
         /\ (log[i].body.apply = "valerror" /\ log[i].body.valerror # Absent)
              => result.kind = "ValidationError" /\ result.val = log[i].body.valerror

\* A sendSms that failed with the validation detail of the device.
C8_Witness ==
  /\ Ended
  /\ result.op = "sendSms"
  /\ result.kind = "ValidationError"
  /\ result.val \in Details
  /\ Kinds(DataLog) = <<"apply">>

\* The acquire and pause events expected of a sendSmsMultiple to rs.
Skeleton(rs) ==
  [i \in 1..(IF Len(rs) = 0 THEN 0 ELSE 2 * Len(rs) - 1) |->
     IF i % 2 = 1 THEN Step("acquire", rs[(i + 1) \div 2], 0)
     ELSE Step("pause", None, PauseSeconds)]

\* Event e ends a handshake successfully.
EndsHandshake(e) ==
  \/ IsAnswer(e, "final")
  \/ IsAnswer(e, "apply") /\ e.body.apply = "ok" /\ e.body.redirect # Absent

\* Sequence s is the beginning of sequence t.
IsPrefix(s, t) == Len(s) <= Len(t) /\ s = SubSeq(t, 1, Len(s))

\* C9: a sendSmsMultiple to N receivers takes up the receivers in list order,
\* with one pause before each receiver but the first; when it succeeds it has
\* run N handshakes, one per receiver in list order, and made N-1 pauses.
C9_MultipleInOrder ==
  result.op = "sendSmsMultiple" =>
    LET rs == log[1].args
        applies == OfKinds(log, {"apply"})
    IN  /\ IsPrefix(OfKinds(log, {"acquire", "pause"}), Skeleton(rs))
        /\ IsPrefix([i \in 1..Len(applies) |-> applies[i].rcv], rs)
        /\ (Ended /\ result.kind = "ok") =>
             /\ OfKinds(log, {"acquire", "pause"}) = Skeleton(rs)
             /\ [i \in 1..Len(applies) |-> applies[i].rcv] = rs
             /\ Len(SelectSeq(log, EndsHandshake)) = Len(rs)
             /\ Len(OfKinds(log, {"pause"})) = (IF Len(rs) = 0 THEN 0 ELSE Len(rs) - 1)
             /\ Len(rs) > 0 => EndsHandshake(log[Len(log)])

\* A sendSmsMultiple to two receivers that succeeded.
C9_Witness ==
  /\ Ended
  /\ result = Outcome("sendSmsMultiple", "ok", None)
  /\ Len(log[1].args) = 2
  /\ Len(OfKinds(log, {"pause"})) = 1

\* C10: when the fetched challenge does not start with "2$", the operation
\* fails with UnsupportedChallengeKind at once: no hash, no sleep and no
\* login request follow the answer.
C10_UnsupportedChallenge ==
  \A i \in 1..Len(log) :
    (/\ IsAnswer(log[i], "challenge")
     /\ ~(Len(log[i].body.challenge) > 1 /\ log[i].body.challenge[1] = "2"))
      => /\ i = Len(log)
         /\ Ended
         /\ result.kind = "UnsupportedChallengeKind"
         /\ OfKinds(LastCall, {"pbkdf2", "sleep", "login"}) = <<>>

\* A legacy challenge that came with a block time.
C10_Witness ==
  /\ Ended
  /\ result.kind = "UnsupportedChallengeKind"
  /\ log[Len(log)].body.challenge = Md5Challenge
  /\ log[Len(log)].body.blocktime > 0

\* C11 as stated: a sendSmsMultiple call passes the admission gate once and
\* consumes one unit of the budget in total, whatever the number of its
\* receivers.
C11_OneUnitPerOperation ==
  result.op = "sendSmsMultiple" => Len(OfKinds(log, {"acquire"})) <= 1

\* The seconds slept by the running get_current_sid call.
Sleeps == OfKinds(LastCall, {"sleep"})

\* C12: the login request is sent only after the challenge was fetched and,
\* when its block time is b > 0, after one sleep of exactly b seconds that
\* directly precedes the request; with a block time of 0 nothing is slept.
SleptBeforeLogin ==
  /\ \A i \in 1..Len(log) :
       /\ log[i].kind = "login" =>
            IF log[i - 1].kind = "sleep"
            THEN /\ log[i - 2].kind = "pbkdf2"
                 /\ IsAnswer(log[i - 3], "challenge")
                 /\ log[i - 3].body.blocktime > 0
                 /\ log[i - 1].dur = log[i - 3].body.blocktime
            ELSE /\ log[i - 1].kind = "pbkdf2"
                 /\ IsAnswer(log[i - 2], "challenge")
                 /\ log[i - 2].body.blocktime = 0
       /\ log[i].kind = "sleep" =>
            IF i = Len(log) THEN pc = "send_response" ELSE log[i + 1].kind = "login"
  /\ Len(Sleeps) <= 1
  /\ pc \in {"send_response", "login_wait"} =>
       now = call_time + (IF Sleeps = <<>> THEN 0 ELSE Sleeps[1].dur)

\* C12, in every state: a login request is sent only after the sleep of the
\* block time of its challenge, of exactly that many seconds, and after no
\* sleep when the block time is 0.
C12_BlockTimeSleep == []SleptBeforeLogin

\* A login request sent after a sleep of MaxBlockTime seconds.
C12_Witness ==
  /\ pc = "login_wait"
  /\ log[Len(log) - 1] = Step("sleep", None, MaxBlockTime)
  /\ now = call_time + MaxBlockTime

\* Event e is a request of kind k that got no answer or one that does not
\* parse.
IsFailure(e, k) == e.kind = "answer" /\ e.to = k /\ ~e.ok

\* C14: one get_current_sid call fetches at most one challenge and submits at
\* most one response, the response after the challenge; a failed fetch ends
\* the operation with ChallengeFetchFailed and nothing submitted, a failed
\* submission ends it with LoginSubmitFailed and no second fetch.
OneFetchOneSubmit ==
  /\ Len(OfKinds(LastCall, {"challenge"})) <= 1
  /\ Len(OfKinds(LastCall, {"login"})) <= 1
  /\ \A i \in 1..Len(LastCall) :
       LastCall[i].kind = "login" =>
         \E j \in 1..(i - 1) : IsAnswer(LastCall[j], "challenge")
  /\ \A i \in 1..Len(log) :
       /\ IsFailure(log[i], "challenge") =>
            /\ i = Len(log)
            /\ Ended
            /\ result.kind = "ChallengeFetchFailed"
            /\ OfKinds(LastCall, {"login"}) = <<>>
       /\ IsFailure(log[i], "login") =>
            /\ i = Len(log)
            /\ Ended
            /\ result.kind = "LoginSubmitFailed"

\* C14, in every state: at most one challenge fetch and then at most one
\* response submission per get_current_sid call, a failure of either ending
\* the operation at once.
C14_NoRetry == []OneFetchOneSubmit

\* A getSid() call on an expired session whose response submission failed.
C14_Witness ==
  /\ Ended
  /\ result = Outcome("getSid", "LoginSubmitFailed", None)
  /\ sid \in Sids
  /\ Kinds(OfKinds(LastCall, AuthKinds)) = <<"challenge", "login">>

\* Event e is an answer on which the code raises.
Failing(e) ==
  /\ e.kind = "answer"
  /\ \/ ~e.ok
     \/ e.to = "challenge" /\ e.body.challenge # Pbkdf2Challenge
     \/ e.to = "login" /\ e.body = ZeroSid
     \/ e.to = "apply" /\ \/ e.body.apply # "ok"
                          \/ e.body.redirect = Absent /\ e.body.new_uid = Absent
     \/ e.to = "confirm" /\ \/ e.body.second_apply # "twofactor"
                            \/ e.body.twofactor # "googleauth"

\* The number of handshakes of the operation that ended successfully.
Completed == Len(SelectSeq(log, EndsHandshake))

\* C16: a sendSmsMultiple ends on the first failure, be it an answer on which
\* the code raises or a denial of the gate: nothing is requested and no pause
\* is made for a later receiver, and the handshakes of the receivers before
\* the failing one are complete.
EndsOnFirstFailure ==
  result.op = "sendSmsMultiple" =>
    /\ \A i \in 1..Len(log) :
         Failing(log[i]) =>
           /\ i = Len(log)
           /\ Ended
           /\ result.kind \notin {"ok", "running"}
    /\ (Ended /\ result.kind # "ok") =>
         LET rs == log[1].args
             k == Completed + 1
             applies == OfKinds(log, {"apply"})
             denied == result.kind = "RateLimitExceeded"
         IN  /\ k <= Len(rs)
             /\ Len(OfKinds(log, {"pause"})) = k - 1
             /\ Len(OfKinds(log, {"acquire"})) = (IF denied THEN k - 1 ELSE k)
             /\ Len(applies) <= k
             /\ \A j \in 1..Len(applies) : applies[j].rcv = rs[j]
             /\ denied => log[Len(log)].kind \in {"call", "pause"}
             /\ ~denied => Failing(log[Len(log)])

\* C16, in every state: a sendSmsMultiple ends on its first failure, with
\* nothing done for the later receivers and the earlier handshakes complete.
C16_FailurePropagates == []EndsOnFirstFailure

\* A sendSmsMultiple to two receivers denied at its second receiver, the
\* handshake of the first one complete.
C16_Witness ==
  /\ Ended
  /\ result = Outcome("sendSmsMultiple", "RateLimitExceeded", None)
  /\ Len(log[1].args) = 2
  /\ Completed = 1
  /\ log[Len(log)].kind = "pause"

\* The number of units the running operation took from the budget.
Acquired(l) == Len(OfKinds(l, {"acquire"}))

\* Every unit taken within the window that ends now is still in the bucket,
\* whatever became of its send; a sendSms takes its one unit before anything
\* else.
UnitsKept ==
  /\ InWindow(bucket, now) = InWindow(admitted, now)
  /\ result.op = "sendSms" =>
       /\ Acquired(log) <= 1
       /\ Len(log) >= 2 => log[2].kind = "acquire"
       /\ (Ended /\ result.kind # "RateLimitExceeded") =>
            /\ Acquired(log) = 1
            /\ bucket # <<>>
            /\ bucket[Len(bucket)] + RateInterval >= now

\* The step of the gate that admits puts exactly one unit, stamped now, into
\* the bucket; no other step changes the bucket.
UnitTaken ==
  IF pc = "enforce_rate_limit"
  THEN pc' # "idle" =>
         /\ bucket' = Append(InWindow(bucket, now), now)
         /\ Acquired(log') = Acquired(log) + 1
         /\ OfKinds(log, NetKinds) = OfKinds(log', NetKinds)
  ELSE bucket' = bucket

\* C17: every admitted sendSms takes exactly one unit of the budget, takes it
\* before the authentication and before any request, and the unit stays
\* taken however the handshake ends.
C17_UnitConsumed == []UnitsKept /\ [][UnitTaken]_vars

\* A sendSms that failed in its authentication after it was admitted.
C17_Witness ==
  /\ Ended
  /\ result = Outcome("sendSms", "InvalidCredentials", None)
  /\ Acquired(log) = 1
  /\ Len(InWindow(bucket, now)) >= 1

\* The Unauthenticated state of the session manager: no sid, or a sid past
\* its expiry.
Unauthenticated == sid = None \/ now > sid_timeout

\* The outcomes of an authentication exchange that failed.
AuthFailureKinds ==
  {"ChallengeFetchFailed", "UnsupportedChallengeKind", "IndexError",
   "LoginSubmitFailed", "InvalidCredentials"}

\* The positions inside an authentication exchange.
InExchange ==
  pc \in {"get_login_state", "challenge_wait", "sleep", "send_response", "login_wait"}

\* The step leaves the cached sid and its expiry as they are.
SessionKept == sid' = sid /\ sid_timeout' = sid_timeout

\* C18: an authentication exchange that fails leaves the cached sid and its
\* expiry as they were when get_current_sid was entered; the client is
\* Unauthenticated all through the exchange and after its failure, stays so
\* until the next call, and the next get_current_sid starts a new exchange.
C18_FailedAuthKeepsSession ==
  /\ [](InExchange => Unauthenticated)
  /\ [][/\ (InExchange /\ result'.kind # "ok" /\ pc' # "request") => SessionKept
        /\ (result.kind = "running" /\ result'.kind \in AuthFailureKinds)
             => SessionKept /\ Unauthenticated' /\ InExchange
        /\ (pc = "idle" /\ Unauthenticated) => SessionKept /\ Unauthenticated'
        /\ (pc = "get_current_sid" /\ Unauthenticated)
             => SessionKept /\ pc' = "get_login_state"]_vars

\* A second operation in a row that failed in its authentication, the
\* session of the client being expired since before the first.
C18_Witness ==
  /\ Ended
  /\ calls = 2
  /\ result.kind \in AuthFailureKinds
  /\ sid \in Sids
  /\ now > sid_timeout + RateInterval

\* The step is a get_current_sid call returning a sid: from the cache, or
\* after an authentication.
SidHandedOut ==
  \/ pc = "get_current_sid" /\ pc' # "get_login_state"
  \/ pc = "login_wait" /\ result'.kind \in {"ok", "running"}

\* C19: every get_current_sid call that returns a sid sets the expiry to
\* now + 19 minutes, also when the sid comes from the cache; so a call made
\* at most 19 minutes after the last successful call never authenticates,
\* however long ago the authentication was.
C19_SlidingExpiry ==
  /\ [](sid # None => sid_timeout = last_ok + SidTimeout)
  /\ [][/\ SidHandedOut => sid_timeout' = now + SidTimeout /\ last_ok' = now
        /\ (pc = "get_current_sid" /\ sid # None /\ now - last_ok <= SidTimeout)
             => SidHandedOut /\ auth_time' = auth_time /\ log' = log]_vars

\* A session still cached two expiry periods after its authentication, and
\* renewed once more.
C19_Witness ==
  /\ Ended
  /\ result = Outcome("getSid", "ok", sid)
  /\ now >= auth_time + 2 * SidTimeout
  /\ sid_timeout = now + SidTimeout
  /\ OfKinds(log, AuthKinds) = <<>>

\* Sequence v is sequence l with the messages of another status than
\* "received" left out: the same messages, as many, in the same order.
IsIncomingOf(v, l) ==
  /\ \A j \in 1..Len(v) : v[j].status_name = "received"
  /\ Len(v) = Cardinality({i \in 1..Len(l) : l[i].status_name = "received"})
  /\ \E f \in [1..Len(v) -> 1..Len(l)] :
       /\ \A j \in 1..Len(v) : v[j] = l[f[j]]
       /\ \A j, k \in 1..Len(v) : j < k => f[j] < f[k]

\* C13: a listMessages or listIncoming call that returns has sent one list
\* request of its own and returns what the answer to it carries: the whole
\* list for listMessages, and for listIncoming the messages of the list
\* with status name "received", in their order and nothing else.
C13_IncomingFilter ==
  result.op \in ListOps =>
    /\ Len(OfKinds(log, {"list"})) <= 1
    /\ (Ended /\ result.kind = "ok") =>
         /\ Len(OfKinds(log, {"list"})) = 1
         /\ IsAnswer(log[Len(log)], "list")
         /\ log[Len(log)].body.there
         /\ result.op = "listMessages" => result.val = log[Len(log)].body.messages
         /\ result.op = "listIncoming" =>
              IsIncomingOf(result.val, log[Len(log)].body.messages)

\* A second list operation, a listIncoming that left a sent message out of
\* the list it fetched.
C13_Witness ==
  /\ Ended
  /\ calls = 2
  /\ result.op = "listIncoming"
  /\ result.kind = "ok"
  /\ log[Len(log)].body.messages = <<Message(2, "sent"), Message(3, "received")>>
  /\ result.val = <<Message(3, "received")>>

\* The answers the operation got to its probe, code and final confirm.
FactorLog ==
  SelectSeq(log, LAMBDA e : e.kind = "answer" /\ e.ok /\ e.to \in {"probe", "code", "final"})

\* C15: in the second factor an answer that came, whatever it says, never
\* makes the send fail: after the answer to the probe and to the code the
\* send goes on to its next request, and with the answer to the final confirm
\* it ends successfully.
C15_FactorAnswersIgnored ==
  \A i \in 1..Len(log) :
    /\ (IsAnswer(log[i], "probe") \/ IsAnswer(log[i], "code")) =>
         IF i = Len(log)
         THEN pc \in {"get_current_sid", "get_login_state", "request"} /\ result.kind = "running"
         ELSE log[i + 1].kind \in {"code", "final", "challenge"}
    /\ IsAnswer(log[i], "final") =>
         /\ i = Len(log)
         /\ Ended
         /\ result = Outcome("sendSms", "ok", None)

\* A sendSms that succeeded although the device rejected the probe, the code
\* and the final confirm.
C15_Witness ==
  /\ Ended
  /\ result = Outcome("sendSms", "ok", None)
  /\ Len(FactorLog) = 3
  /\ \A i \in 1..3 : FactorLog[i].body = "rejected"

\* The requests that carry a sid: those of send_sms and the list request.
SidKinds == DataKinds \cup {"list"}

\* The step sends a request that carries a sid.
SendsRequest ==
  /\ Len(log') = Len(log) + 1
  /\ log'[Len(log')].kind \in SidKinds

\* C20: every request of send_sms and get_sms carries the sid that a
\* get_current_sid call made for this request has just returned: the sid
\* cached at that moment, with its expiry 19 minutes ahead, and no other
\* request was sent since that call was entered.
C20_SidPerRequest ==
  [][SendsRequest =>
       /\ log'[Len(log')].sid = sid
       /\ sid \in Sids
       /\ last_ok = now
       /\ sid_timeout = now + SidTimeout
       /\ OfKinds(LastCall, SidKinds) = <<>>
       /\ mark >= 1]_vars

\* A sendSms whose apply and confirm requests carry different sids: the
\* session expired while the apply request was in flight.
C20_Witness ==
  /\ result.op = "sendSms"
  /\ \E i, j \in 1..Len(log) :
       /\ i < j
       /\ log[i].kind = "apply"
       /\ log[j].kind = "confirm"
       /\ log[i].sid # log[j].sid
       /\ log[j].sid = sid

====
